---- MODULE Spec2Model ----
(***************************************************************************)
(* Model of src/main.py: OnePasswordConverter (1Password .1pux -> CSV).    *)
(*                                                                         *)
(* JSON scalars are TLA+ strings.  Three reserved strings stand for the    *)
(* values that are not JSON strings: Absent (the key is not in the         *)
(* object), Null (JSON null / Python None) and Num (a non-zero JSON        *)
(* number).  JSON containers are records with a "kind" field.              *)
(***************************************************************************)
EXTENDS Integers, Sequences, FiniteSets, TLC

VARIABLES
    input_file,      \* self.input_file as the file system shows it
    archive,         \* what the bytes of input_file are
    pc,              \* position of convert()
    runs,            \* number of convert() calls made on this converter
    tempDir,         \* TRUE while the TemporaryDirectory exists
    password_items,  \* self.password_items
    origin,          \* for each entry of password_items: the run and the index of its source item
    error,           \* the error kind convert() raised, NoError otherwise
    steps,           \* the steps this run has started, in order
    effects,         \* the file system side effects of this run
    outFile          \* the CSV file on disk: the run that wrote it and its data rows

vars == <<input_file, archive, pc, runs, tempDir, password_items, origin,
          error, steps, effects, outFile>>

-----------------------------------------------------------------------------
(* Bounds *)

MaxItems == 3
MaxFields == 2
MaxRuns == 2

-----------------------------------------------------------------------------
(* JSON values *)

Absent == "<absent>"
Null == "<null>"
Num == "<number>"

IsStr(v) == v \notin {Absent, Null, Num}

\* Python truthiness of a scalar: None and '' are falsy, a non-zero number
\* and a non-empty string are truthy.
Truthy(v) == v \notin {Null, ""}

\* str.lower() on the names the model uses.
Lower(s) ==
    CASE s = "USERNAME" -> "username"
      [] s = "Username" -> "username"
      [] s = "Password" -> "password"
      [] s = "PASSWORD" -> "password"
      [] s = ".1PUX" -> ".1pux"
      [] s = ".1Pux" -> ".1pux"
      [] s = ".ZIP" -> ".zip"
      [] OTHER -> s

-----------------------------------------------------------------------------
(* _parse_login_fields *)

\* if not isinstance(field, dict) or 'name' not in field or 'value' not in field: continue
SkipField(field) ==
    \/ field.kind # "obj"
    \/ field.name = Absent
    \/ field.value = Absent

\* field['name'].lower() raises AttributeError unless the name is a str
NameRaises(field) == ~IsStr(field.name)

FieldName_sensitive(field) == field.name

\* field_name = field['name'].lower()
FieldName(field) == Lower(field.name)

NoCreds == [raised |-> FALSE, username |-> Null, password |-> Null]

RECURSIVE ScanFields(_, _, _, _)
\* the for loop of _parse_login_fields from position i on, username u and password p so far
ScanFields(fields, i, u, p) ==
    IF i > Len(fields)
    THEN [raised |-> FALSE, username |-> u, password |-> p]
    ELSE LET field == fields[i] IN
         IF SkipField(field) THEN ScanFields(fields, i + 1, u, p)
         ELSE IF NameRaises(field)
         THEN [raised |-> TRUE, username |-> Null, password |-> Null]
         ELSE IF FieldName(field) = "username"
         THEN ScanFields(fields, i + 1, field.value, p)
         ELSE IF FieldName(field) = "password"
         THEN ScanFields(fields, i + 1, u, field.value)
         ELSE ScanFields(fields, i + 1, u, p)

\* _parse_login_fields(login_fields) for a truthy login_fields: a number is
\* not iterable (TypeError), the characters of a string are not dicts.
ParseLoginFields(login_fields) ==
    CASE login_fields.kind = "list" -> ScanFields(login_fields.list, 1, Null, Null)
      [] login_fields.kind = "str" -> NoCreds
      [] OTHER -> [raised |-> TRUE, username |-> Null, password |-> Null]

-----------------------------------------------------------------------------
(* _convert_to_keychain: one item *)

\* `if login_fields:` -- a non-empty list, a non-zero number or a non-empty string
LoginFieldsTruthy(login_fields) ==
    \/ login_fields.kind = "list" /\ login_fields.list # <<>>
    \/ login_fields.kind \in {"num", "str"}

\* details.get('loginFields', [])
GetLoginFields(details) ==
    IF details.kind = "absent" \/ details.loginFields.kind = "absent"
    THEN [kind |-> "list", list |-> <<>>]
    ELSE details.loginFields

GetTitle_empty(overview) ==
    IF overview.kind = "absent" \/ overview.title = Absent THEN "" ELSE overview.title

\* overview.get('title', 'Untitled'), overview being {} when the item has none
GetTitle(overview) ==
    IF overview.kind = "absent" \/ overview.title = Absent THEN "Untitled" ELSE overview.title

\* overview.get('url', '')
GetUrl(overview) ==
    IF overview.kind = "absent" \/ overview.url = Absent THEN "" ELSE overview.url

\* x or ''
OrEmpty(x) == IF Truthy(x) THEN x ELSE ""

ItemRaises_strict(item) ==
    \/ item.kind # "obj"
    \/ item.overview.kind = "null"
    \/ item.details.kind = "null"
    \/ ~LoginFieldsTruthy(GetLoginFields(item.details))
    \/ ParseLoginFields(GetLoginFields(item.details)).raised

\* the body of the try block raises: item, overview or details has no .get,
\* or _parse_login_fields raises
ItemRaises(item) ==
    \/ item.kind # "obj"
    \/ item.overview.kind = "null"
    \/ item.details.kind = "null"
    \/ /\ LoginFieldsTruthy(GetLoginFields(item.details))
       /\ ParseLoginFields(GetLoginFields(item.details)).raised

\* password_item of an item whose processing does not raise
PasswordItem(item) ==
    LET login_fields == GetLoginFields(item.details)
        creds == IF LoginFieldsTruthy(login_fields)
                 THEN ParseLoginFields(login_fields)
                 ELSE NoCreds
    IN [title |-> GetTitle(item.overview),
        url |-> GetUrl(item.overview),
        username |-> OrEmpty(creds.username),
        password |-> OrEmpty(creds.password),
        notes |-> "",
        otp_auth |-> ""]

AfterItemError_break(items, i) == Len(items) + 1

\* except Exception: ... continue -- the loop goes on with the next item
AfterItemError(items, i) == i + 1

RECURSIVE ConvertItems(_, _, _, _)
\* the for loop of _convert_to_keychain from position i on; acc is the pair
\* <<password_items, origin>>, run the number of the running convert()
ConvertItems(items, i, acc, run) ==
    IF i > Len(items) THEN acc
    ELSE IF ItemRaises(items[i])
    THEN ConvertItems(items, AfterItemError(items, i), acc, run)
    ELSE ConvertItems(items, i + 1,
                      <<Append(acc[1], PasswordItem(items[i])),
                        Append(acc[2], [run |-> run, idx |-> i])>>,
                      run)

-----------------------------------------------------------------------------
(* _convert_to_keychain: navigation accounts[0].vaults[0].items *)

\* `not x` for x = d.get(key, []): the key is absent, null or an empty list
Falsy(slot) == slot.kind \in {"absent", "null"} \/ slot.list = <<>>

NoError == "NoError"

NavigateError_items(doc) ==
    IF Falsy(doc.accounts) THEN "EmptyAccountList"
    ELSE IF Falsy(doc.accounts.list[1].vaults) THEN "EmptyVaultList"
    ELSE IF doc.accounts.list[1].vaults.list[1].items.kind = "absent" THEN "EmptyVaultList"
    ELSE NoError

\* the two `raise ValueError` of the navigation
NavigateError(doc) ==
    IF Falsy(doc.accounts) THEN "EmptyAccountList"
    ELSE IF Falsy(doc.accounts.list[1].vaults) THEN "EmptyVaultList"
    ELSE NoError

\* items = vaults[0].get('items', [])
DocItems(doc) ==
    LET vault == doc.accounts.list[1].vaults.list[1]
    IN IF vault.items.kind = "absent" THEN <<>> ELSE vault.items.list

-----------------------------------------------------------------------------
(* exporter *)

\* iCloudPasswordsExporter.transform_item
transform_item(item) ==
    [Title |-> item.title, URL |-> item.url, Username |-> item.username,
     Password |-> item.password, Notes |-> item.notes, OTPAuth |-> item.otp_auth]

\* the data rows BasePasswordExporter.export writes for password_items
ExportRows(items) == [k \in 1..Len(items) |-> transform_item(items[k])]

-----------------------------------------------------------------------------
(* _validate_input_file *)

ValidInput_nosuffix(f) == f.exists /\ f.is_file

ValidInput(f) == f.exists /\ f.is_file /\ Lower(f.suffix) = ".1pux"

-----------------------------------------------------------------------------
(* with tempfile.TemporaryDirectory() *)

ScratchAfterExit_leak(raised) == raised

\* __exit__ removes the directory whether or not the block raised
ScratchAfterExit(raised) == FALSE

-----------------------------------------------------------------------------
(* The inputs: paths, archives and export.data documents *)

SeqsUpTo(S, n) == UNION {[1..k -> S] : k \in 0..n}

Slot(kind, list) == [kind |-> kind, list |-> list]
Entry(name, value) == [kind |-> "obj", name |-> name, value |-> value]
StrEntry == [kind |-> "str", name |-> Absent, value |-> Absent]

EntryPool ==
    {StrEntry,
     Entry(Absent, "alice"), Entry("username", Absent), Entry(Null, "alice"),
     Entry("username", "alice"), Entry("USERNAME", "bob"), Entry("username", Null),
     Entry("password", "s3cr3t"), Entry("Password", "hunter2"),
     Entry("email", "bob")}

Overview(title, url) == [kind |-> "obj", title |-> title, url |-> url]
NoOverview == [kind |-> "absent", title |-> Absent, url |-> Absent]
NullOverview == [kind |-> "null", title |-> Absent, url |-> Absent]

Details(login_fields) == [kind |-> "obj", loginFields |-> login_fields]
NoDetails == [kind |-> "absent", loginFields |-> Slot("absent", <<>>)]
NullDetails == [kind |-> "null", loginFields |-> Slot("absent", <<>>)]

Item(overview, details) == [kind |-> "obj", overview |-> overview, details |-> details]
StrItem == [kind |-> "str", overview |-> NoOverview, details |-> NoDetails]

OverviewPool ==
    {NoOverview, NullOverview}
    \cup {Overview(t, u) : t \in {Absent, Null, "", "Bank"}, u \in {Absent, Null, "bank.com"}}

DetailsPool ==
    {NoDetails, NullDetails}
    \cup {Details(Slot(k, <<>>)) : k \in {"absent", "null", "num", "str"}}
    \cup {Details(Slot("list", l)) : l \in SeqsUpTo(EntryPool, MaxFields)}

\* items that vary one part at a time
ItemPool ==
    {StrItem}
    \cup {Item(o, NoDetails) : o \in OverviewPool}
    \cup {Item(Overview("Bank", "bank.com"), d) : d \in DetailsPool}

ItemA == Item(Overview("Bank", "bank.com"),
              Details(Slot("list", <<Entry("username", "alice"), Entry("password", "s3cr3t")>>)))
ItemB == Item(Overview("Mail", Absent),
              Details(Slot("list", <<Entry("USERNAME", "bob"), Entry("Password", "hunter2")>>)))
ItemStrField == Item(Overview("Shop", "shop.com"), Details(Slot("list", <<StrEntry>>)))
ItemNullName == Item(Overview("Wiki", "wiki.org"), Details(Slot("list", <<Entry(Null, "alice")>>)))
ItemNoOverview == Item(NoOverview, NoDetails)

\* items that documents of several items are made of
SmallPool == {ItemA, ItemB, StrItem, ItemStrField, ItemNullName, ItemNoOverview}

Vault(items) == [items |-> items]
Account(vaults) == [vaults |-> vaults]
Doc(accounts) == [accounts |-> accounts]

DocOf(items) == Doc(Slot("list", <<Account(Slot("list", <<Vault(Slot("list", items))>>))>>))

\* documents that vary the path accounts[0].vaults[0].items
NavDocs ==
    {Doc(Slot(k, <<>>)) : k \in {"absent", "null", "list"}}
    \cup {Doc(Slot("list", <<Account(Slot(k, <<>>))>>)) : k \in {"absent", "null", "list"}}
    \cup {Doc(Slot("list", <<Account(Slot("list", <<Vault(Slot("absent", <<>>))>>))>>)),
          Doc(Slot("list", <<Account(Slot("list", <<>>)), Account(Slot("list", <<Vault(Slot("list", <<ItemA>>))>>))>>)),
          Doc(Slot("list", <<Account(Slot("list", <<Vault(Slot("list", <<ItemA>>)), Vault(Slot("list", <<ItemB>>))>>)),
                             Account(Slot("list", <<Vault(Slot("list", <<ItemB>>))>>))>>)),
          Doc(Slot("list", <<Account(Slot("list", <<Vault(Slot("absent", <<>>)), Vault(Slot("list", <<ItemB>>))>>))>>))}

Docs ==
    NavDocs
    \cup {DocOf(items) : items \in SeqsUpTo(SmallPool, MaxItems)}
    \cup {DocOf(<<item>>) : item \in ItemPool}

EmptyDoc == Doc(Slot("absent", <<>>))

\* zip: the file is a zip container; hasData: export.data is in it;
\* json: export.data decodes as JSON; doc: the decoded document
Archive(zip, hasData, json, doc) == [zip |-> zip, hasData |-> hasData, json |-> json, doc |-> doc]

BrokenArchives ==
    {Archive(FALSE, FALSE, FALSE, EmptyDoc),
     Archive(TRUE, FALSE, FALSE, EmptyDoc),
     Archive(TRUE, TRUE, FALSE, EmptyDoc)}

Archives == BrokenArchives \cup {Archive(TRUE, TRUE, TRUE, d) : d \in Docs}

Path(exists, is_file, suffix) == [exists |-> exists, is_file |-> is_file, suffix |-> suffix]

GoodPaths == {Path(TRUE, TRUE, ".1pux"), Path(TRUE, TRUE, ".1PUX")}

BadPaths ==
    {Path(FALSE, FALSE, ".1pux"), Path(TRUE, FALSE, ".1pux"),
     Path(TRUE, TRUE, ".zip"), Path(TRUE, TRUE, ".ZIP"), Path(TRUE, TRUE, "")}

-----------------------------------------------------------------------------
(* OnePasswordConverter *)

NoFile == [run |-> 0, rows |-> <<>>]

\* __init__: password_items = []; the file at input_file is whatever it is
Init ==
    /\ \/ input_file \in GoodPaths /\ archive \in Archives
       \/ input_file \in BadPaths /\ archive \in BrokenArchives
    /\ pc = "Idle"
    /\ runs = 0
    /\ tempDir = FALSE
    /\ password_items = <<>>
    /\ origin = <<>>
    /\ error = NoError
    /\ steps = <<>>
    /\ effects = {}
    /\ outFile = NoFile

\* an exception leaves convert(): the with block, if entered, is exited
Raise(kind) ==
    /\ pc' = "Failed"
    /\ error' = kind
    /\ tempDir' = IF tempDir THEN ScratchAfterExit(TRUE) ELSE FALSE

\* convert() is called
StartConvert ==
    /\ pc \in {"Idle", "Done", "Failed"}
    /\ runs < MaxRuns
    /\ pc' = "Validating"
    /\ runs' = runs + 1
    /\ error' = NoError
    /\ steps' = <<"Validating">>
    /\ effects' = {}
    /\ UNCHANGED <<input_file, archive, tempDir, password_items, origin, outFile>>

\* self._validate_input_file()
Validate ==
    /\ pc = "Validating"
    /\ IF ValidInput(input_file)
       THEN /\ pc' = "Extracting"
            /\ steps' = Append(steps, "Extracting")
            /\ UNCHANGED <<error, tempDir>>
       ELSE /\ Raise("InvalidInput")
            /\ UNCHANGED steps
    /\ UNCHANGED <<input_file, archive, runs, password_items, origin, effects, outFile>>

\* with tempfile.TemporaryDirectory() as temp_dir
EnterScratch ==
    /\ pc = "Extracting"
    /\ ~tempDir
    /\ tempDir' = TRUE
    /\ effects' = effects \cup {"mkdtemp"}
    /\ UNCHANGED <<input_file, archive, pc, runs, password_items, origin, error, steps, outFile>>

\* self._extract_1password_file(temp_path)
Extract ==
    /\ pc = "Extracting"
    /\ tempDir
    /\ effects' = effects \cup {"open_archive"}
    /\ IF ~archive.zip
       THEN Raise("CorruptArchive") /\ UNCHANGED steps
       ELSE IF ~archive.hasData
       THEN Raise("MissingDocument") /\ UNCHANGED steps
       ELSE /\ pc' = "Parsing"
            /\ steps' = Append(steps, "Parsing")
            /\ UNCHANGED <<error, tempDir>>
    /\ UNCHANGED <<input_file, archive, runs, password_items, origin, outFile>>

\* self._convert_to_keychain(export_data_file)
Parse ==
    /\ pc = "Parsing"
    /\ IF ~archive.json
       THEN Raise("MalformedDocument") /\ UNCHANGED <<steps, password_items, origin>>
       ELSE IF NavigateError(archive.doc) # NoError
       THEN Raise(NavigateError(archive.doc)) /\ UNCHANGED <<steps, password_items, origin>>
       ELSE LET acc == ConvertItems(DocItems(archive.doc), 1, <<password_items, origin>>, runs)
            IN /\ password_items' = acc[1]
               /\ origin' = acc[2]
               /\ pc' = "Exporting"
               /\ steps' = Append(steps, "Exporting")
               /\ UNCHANGED <<error, tempDir>>
    /\ UNCHANGED <<input_file, archive, runs, effects, outFile>>

\* self._export_passwords(): the output file can be written or not
Export ==
    /\ pc = "Exporting"
    /\ \E writable \in BOOLEAN :
          IF writable
          THEN /\ outFile' = [run |-> runs, rows |-> ExportRows(password_items)]
               /\ effects' = effects \cup {"write_output"}
               /\ pc' = "Done"
               /\ tempDir' = ScratchAfterExit(FALSE)
               /\ UNCHANGED error
          ELSE /\ Raise("WriteFailure")
               /\ UNCHANGED <<outFile, effects>>
    /\ UNCHANGED <<input_file, archive, runs, password_items, origin, steps>>

Next == StartConvert \/ Validate \/ EnterScratch \/ Extract \/ Parse \/ Export

Spec == Init /\ [][Next]_vars

-----------------------------------------------------------------------------
(* Vocabulary of the properties *)

Order == <<"Validating", "Extracting", "Parsing", "Exporting">>

Started(step) == \E k \in 1..Len(steps) : steps[k] = step

\* this run's _convert_to_keychain has returned normally
ParseReturned == Started("Exporting")

\* this run's _convert_to_keychain has returned or raised on a decodable document
ParseEnded == Started("Parsing") /\ pc # "Parsing" /\ archive.json

\* the positions of password_items that this run appended
Mine == {k \in 1..Len(password_items) : origin[k].run = runs}

\* the items sequence of the document, when the navigation reaches it
Items == DocItems(archive.doc)

\* the list under details.loginFields of an item, <<>> when there is none
FieldList(item) ==
    IF item.details.kind = "obj" /\ item.details.loginFields.kind = "list"
    THEN item.details.loginFields.list
    ELSE <<>>

\* an entry that is an object carrying a string name and a value
GoodEntry(e) == e.kind = "obj" /\ IsStr(e.name) /\ e.value # Absent

WellFormedItem(item) ==
    /\ item.kind = "obj"
    /\ item.overview.kind = "obj"
    /\ item.details.kind = "obj"
    /\ item.details.loginFields.kind = "list"
    /\ \A j \in 1..Len(item.details.loginFields.list) : GoodEntry(item.details.loginFields.list[j])

\* the positions of the good entries of a list whose name is `kind` ignoring case
Matching(list, kind) ==
    {j \in 1..Len(list) : GoodEntry(list[j]) /\ Lower(list[j].name) = kind}

LastOf(S) == CHOOSE j \in S : \A m \in S : m <= j

-----------------------------------------------------------------------------
(* C1 *)

\* C1: on a fresh converter, a document of N well-formed items yields exactly
\* N Records, the i-th built from the i-th item.
C1_SourceOrder ==
    (runs = 1 /\ ParseReturned /\ \A i \in 1..Len(Items) : WellFormedItem(Items[i]))
    => /\ Len(password_items) = Len(Items)
       /\ \A i \in 1..Len(Items) :
             /\ origin[i].idx = i
             /\ IsStr(Items[i].overview.title) => password_items[i].title = Items[i].overview.title
             /\ IsStr(Items[i].overview.url) => password_items[i].url = Items[i].overview.url

C1_Witness ==
    /\ runs = 1 /\ pc = "Exporting"
    /\ Len(Items) = MaxItems
    /\ \A i \in 1..Len(Items) : WellFormedItem(Items[i])
    /\ Items[1] # Items[2]
    /\ Len(password_items) = MaxItems

-----------------------------------------------------------------------------
(* C2 *)

\* C2: no terminal state of convert (Done or Failed) has the scratch
\* directory still existing, whichever step ended the run.
C2_ScratchRemoved == pc \in {"Done", "Failed"} => ~tempDir

C2_Witness ==
    /\ pc = "Failed"
    /\ error = "EmptyVaultList"
    /\ "mkdtemp" \in effects
    /\ ~tempDir

-----------------------------------------------------------------------------
(* C3 *)

ErrorsOf(step) ==
    CASE step = "Validating" -> {"InvalidInput"}
      [] step = "Extracting" -> {"CorruptArchive", "MissingDocument"}
      [] step = "Parsing" -> {"MalformedDocument", "EmptyAccountList", "EmptyVaultList"}
      [] step = "Exporting" -> {"WriteFailure"}

\* the path does not exist, is not a regular file, or its extension is not .1pux in any case
InvalidPath(f) == ~f.exists \/ ~f.is_file \/ f.suffix \notin {".1pux", ".1PUX", ".1Pux"}

C3_State ==
    /\ steps = SubSeq(Order, 1, Len(steps))
    /\ pc \in {"Validating", "Extracting", "Parsing", "Exporting"} => pc = steps[Len(steps)]
    /\ pc = "Done" => steps = Order
    /\ pc = "Failed" => error \in ErrorsOf(steps[Len(steps)])
    /\ pc # "Failed" => error = NoError
    /\ (pc # "Idle" /\ InvalidPath(input_file))
       => /\ pc \in {"Validating", "Failed"}
          /\ steps = <<"Validating">>
          /\ effects = {}
          /\ ~tempDir
          /\ outFile.run # runs
          /\ pc = "Failed" => error = "InvalidInput"

C3_Step ==
    /\ pc = "Failed" => (pc' = "Failed" \/ (pc' = "Validating" /\ runs' = runs + 1))
    /\ pc = "Failed" /\ pc' = "Failed" => UNCHANGED vars
    /\ (pc' # pc /\ pc' \in {"Extracting", "Parsing", "Exporting", "Done"})
       => /\ error' = NoError
          /\ \/ pc = "Validating" /\ pc' = "Extracting"
             \/ pc = "Extracting" /\ pc' = "Parsing"
             \/ pc = "Parsing" /\ pc' = "Exporting"
             \/ pc = "Exporting" /\ pc' = "Done"

\* C3: convert steps only through Validating, Extracting, Parsing, Exporting,
\* Done; the first failing step ends the run in Failed with that step's error
\* and nothing runs after it; an invalid input path fails in Validating with
\* no scratch directory, no archive opened and no output written.
C3_StepOrder == []C3_State /\ [][C3_Step]_vars

C3_Witness ==
    /\ pc = "Failed"
    /\ error = "InvalidInput"
    /\ input_file = Path(TRUE, TRUE, ".zip")
    /\ effects = {}

-----------------------------------------------------------------------------
(* C4 *)

\* the items whose processing does not raise
NonFailing == {i \in 1..Len(Items) : ~ItemRaises(Items[i])}

\* C4: an item whose processing raises is skipped alone: once the document
\* decodes and the navigation reaches the items, parse returns normally, and
\* the Records it appended are those of the non-failing items in source order.
C4_ItemSkipped ==
    (ParseEnded /\ ~Falsy(archive.doc.accounts) /\ ~Falsy(archive.doc.accounts.list[1].vaults))
    => /\ ParseReturned
       /\ error \notin {"MalformedDocument", "EmptyAccountList", "EmptyVaultList"}
       /\ {origin[k].idx : k \in Mine} = NonFailing
       /\ Cardinality(Mine) = Cardinality(NonFailing)
       /\ \A k, m \in Mine : k < m => origin[k].idx < origin[m].idx
       /\ \A k \in Mine : password_items[k] = PasswordItem(Items[origin[k].idx])

C4_Witness ==
    /\ ParseReturned
    /\ Len(Items) = 3
    /\ ItemRaises(Items[2]) /\ ~ItemRaises(Items[1]) /\ ~ItemRaises(Items[3])
    /\ Items[1] # Items[3]
    /\ {origin[k].idx : k \in Mine} = {1, 3}

-----------------------------------------------------------------------------
(* C5 *)

\* an item that is well-formed down to its loginFields list; only the entries may be malformed
EntriesOnly(item) ==
    /\ item.kind = "obj"
    /\ item.overview.kind \in {"obj", "absent"}
    /\ item.details.kind = "obj"
    /\ item.details.loginFields.kind = "list"

\* the value of the last good entry named `kind`, the empty string if there is none or it is null
LastGood(list, kind) ==
    IF Matching(list, kind) = {} THEN ""
    ELSE IF list[LastOf(Matching(list, kind))].value = Null THEN ""
    ELSE list[LastOf(Matching(list, kind))].value

\* C5: a loginFields entry that lacks name or value, is not an object, or has
\* a name that is not a string is skipped without aborting the item: the item
\* still yields a Record whose username and password come from the remaining
\* well-formed entries.
C5_FieldSkipped ==
    ParseReturned
    => \A i \in 1..Len(Items) :
          EntriesOnly(Items[i])
          => \E k \in Mine :
                /\ origin[k].idx = i
                /\ password_items[k].username = LastGood(FieldList(Items[i]), "username")
                /\ password_items[k].password = LastGood(FieldList(Items[i]), "password")

-----------------------------------------------------------------------------
(* C6 *)

TitleAbsent(item) == item.overview.kind = "absent" \/ item.overview.title = Absent
UrlAbsent(item) == item.overview.kind = "absent" \/ item.overview.url = Absent

\* C6 as stated: an absent or empty overview.title gives the title
\* "Untitled", an absent overview.url gives the empty url.
C6_UntitledOrEmpty ==
    ParseReturned
    => \A k \in Mine :
          /\ (TitleAbsent(Items[origin[k].idx]) \/ Items[origin[k].idx].overview.title = "")
             => password_items[k].title = "Untitled"
          /\ UrlAbsent(Items[origin[k].idx]) => password_items[k].url = ""

\* C6 amended: an absent overview.title (or no overview at all) gives the
\* title "Untitled", an empty title stays the empty string, an absent
\* overview.url gives the empty url.
C6_UntitledWhenAbsent ==
    ParseReturned
    => \A k \in Mine :
          /\ TitleAbsent(Items[origin[k].idx]) => password_items[k].title = "Untitled"
          /\ (~TitleAbsent(Items[origin[k].idx]) /\ Items[origin[k].idx].overview.title = "")
             => password_items[k].title = ""
          /\ UrlAbsent(Items[origin[k].idx]) => password_items[k].url = ""

C6_Witness ==
    /\ ParseReturned
    /\ \E k \in Mine :
          /\ Items[origin[k].idx].overview.kind = "obj"
          /\ Items[origin[k].idx].overview.title = Absent
          /\ Items[origin[k].idx].overview.url = Absent
          /\ password_items[k].title = "Untitled"
          /\ password_items[k].url = ""

-----------------------------------------------------------------------------
(* C7 *)

\* C7: every Record of the record sequence holds a string in each of its six
\* fields, and so does every row handed to the CSV writer.
C7_AllStrings ==
    /\ \A k \in 1..Len(password_items) :
          /\ IsStr(password_items[k].title)
          /\ IsStr(password_items[k].url)
          /\ IsStr(password_items[k].username)
          /\ IsStr(password_items[k].password)
          /\ IsStr(password_items[k].notes)
          /\ IsStr(password_items[k].otp_auth)
    /\ \A k \in 1..Len(outFile.rows) :
          /\ IsStr(outFile.rows[k].Title)
          /\ IsStr(outFile.rows[k].URL)
          /\ IsStr(outFile.rows[k].Username)
          /\ IsStr(outFile.rows[k].Password)
          /\ IsStr(outFile.rows[k].Notes)
          /\ IsStr(outFile.rows[k].OTPAuth)

-----------------------------------------------------------------------------
(* C8 *)

\* C8: the Record's username (password) is the value of the last entry named
\* "username" ("password") ignoring case, the empty string when no entry is
\* named so; entries of other names change neither.
C8_LastWins ==
    ParseReturned
    => \A k \in Mine :
          \A kind \in {"username", "password"} :
             LET list == FieldList(Items[origin[k].idx])
                 got == IF kind = "username" THEN password_items[k].username
                        ELSE password_items[k].password
             IN /\ Matching(list, kind) = {} => got = ""
                /\ (Matching(list, kind) # {} /\ IsStr(list[LastOf(Matching(list, kind))].value))
                   => got = list[LastOf(Matching(list, kind))].value

C8_Witness ==
    /\ ParseReturned
    /\ \E k \in Mine :
          /\ FieldList(Items[origin[k].idx]) = <<Entry("username", "alice"), Entry("USERNAME", "bob")>>
          /\ password_items[k].username = "bob"
          /\ password_items[k].password = ""

-----------------------------------------------------------------------------
(* C9 *)

AbsentOrEmpty(slot) == slot.kind = "absent" \/ (slot.kind = "list" /\ slot.list = <<>>)

NothingAdded == Mine = {} /\ outFile.run # runs

\* C9: parse fails with EmptyAccountList when accounts is absent or empty,
\* else with EmptyVaultList when the first account's vaults is absent or
\* empty, else succeeds with zero Records when items is absent; a failure
\* adds no Record and writes no output file.
C9_Navigation ==
    ParseEnded
    => IF AbsentOrEmpty(archive.doc.accounts)
       THEN pc = "Failed" /\ error = "EmptyAccountList" /\ NothingAdded
       ELSE IF archive.doc.accounts.kind = "list"
               /\ AbsentOrEmpty(archive.doc.accounts.list[1].vaults)
       THEN pc = "Failed" /\ error = "EmptyVaultList" /\ NothingAdded
       ELSE IF archive.doc.accounts.kind = "list"
               /\ archive.doc.accounts.list[1].vaults.kind = "list"
               /\ archive.doc.accounts.list[1].vaults.list[1].items.kind = "absent"
       THEN ParseReturned /\ Mine = {} /\ error # "EmptyVaultList" /\ error # "EmptyAccountList"
       ELSE TRUE

C9_Witness ==
    /\ pc = "Failed"
    /\ error = "EmptyVaultList"
    /\ archive.doc.accounts.kind = "list"
    /\ Len(archive.doc.accounts.list) = 2
    /\ archive.doc.accounts.list[1].vaults.list = <<>>
    /\ NothingAdded

-----------------------------------------------------------------------------
(* C10 *)

\* C10: the rows a successful convert writes are the Records parsed from the
\* archive during that invocation, none left over from an earlier one.
C10_RunLocal ==
    pc = "Done"
    => /\ Len(outFile.rows) = Cardinality(NonFailing)
       /\ \A k \in 1..Len(password_items) : origin[k].run = runs

====
